---- MODULE Spec2Model ----
(***************************************************************************)
(* Model of src/pandas_questions.py: the referendum pipeline               *)
(*   merge_regions_and_departments -> merge_referendum_and_areas ->        *)
(*   compute_referendum_result_by_regions -> plot_referendum_map.          *)
(*                                                                         *)
(* A DataFrame is a sequence of rows, a row is a record of its columns.    *)
(* Strings that the code inspects character by character (codes) are       *)
(* sequences of one-character strings; names are atomic strings.           *)
(* Counts are vote counts, far below the int64 range, so sums are exact.   *)
(* Department codes carry no '+' or '-' sign.                              *)
(***************************************************************************)
EXTENDS Integers, Sequences, FiniteSets, TLC

VARIABLES regions, departments, referendum, regions_geo,
          regions_and_departments, referendum_and_areas,
          referendum_results, gdf, pc

vars == <<regions, departments, referendum, regions_geo,
          regions_and_departments, referendum_and_areas,
          referendum_results, gdf, pc>>

(***************************************************************************)
(* Bounds                                                                  *)
(***************************************************************************)
MaxRegions == 2
MaxDeps == 2
MaxVotes == 2
MaxAreas == 2
MaxJoined == 3
MaxResults == 2
MaxCount == 2
MaxIntCode == 104
MaxStrCode == 3
PipeRows == 1
PipeVotes == 2

(***************************************************************************)
(* Absent values (NaN / None in pandas)                                    *)
(***************************************************************************)
NaN == "NaN"
NaNCode == <<"NaN">>

(***************************************************************************)
(* Generic helpers                                                         *)
(***************************************************************************)
SeqsUpTo(S, n) == UNION {[1..k -> S] : k \in 0..n}

RECURSIVE SumSeq(_)
SumSeq(s) == IF s = <<>> THEN 0 ELSE Head(s) + SumSeq(Tail(s))

RECURSIVE Concat(_)
Concat(ss) == IF ss = <<>> THEN <<>> ELSE Head(ss) \o Concat(Tail(ss))

Column(df, col) == [i \in 1..Len(df) |-> df[i][col]]

RECURSIVE Gcd(_, _)
Gcd(a, b) == IF b = 0 THEN a ELSE Gcd(b, a % b)

(***************************************************************************)
(* String operations used by the code                                      *)
(***************************************************************************)
Digits == <<"0", "1", "2", "3", "4", "5", "6", "7", "8", "9">>

RECURSIVE IntToStr(_)
IntToStr(n) ==
    IF n < 10 THEN <<Digits[n + 1]>>
    ELSE IntToStr(n \div 10) \o <<Digits[(n % 10) + 1]>>

\* A raw cell is an integer (isInt) or a string; astype(str) renders it.
AsTypeStr(raw) == IF raw.isInt THEN IntToStr(raw.n) ELSE raw.s

\* variant: the zeros are appended (ljust) instead of prepended
RECURSIVE ZFill_right(_, _)
ZFill_right(s, width) ==
    IF Len(s) >= width THEN s ELSE ZFill_right(s \o <<"0">>, width)

RECURSIVE ZFill(_, _)
ZFill(s, width) == IF Len(s) >= width THEN s ELSE ZFill(<<"0">> \o s, width)

StrContains(s, ch) == \E i \in 1..Len(s) : s[i] = ch

DigitVal(c) == (CHOOSE i \in 1..10 : Digits[i] = c) - 1

IsDigitStr(s) == Len(s) > 0 /\ \A i \in 1..Len(s) : \E d \in 1..10 : Digits[d] = s[i]

RECURSIVE NumVal(_)
NumVal(s) ==
    IF s = <<>> THEN 0
    ELSE 10 * NumVal(SubSeq(s, 1, Len(s) - 1)) + DigitVal(s[Len(s)])

IntCell(n) == [isInt |-> TRUE, n |-> n, s |-> <<>>]
StrCell(s) == [isInt |-> FALSE, n |-> 0, s |-> s]

(***************************************************************************)
(* merge_regions_and_departments                                           *)
(***************************************************************************)
\* regions.rename(...)[['code_reg', 'name_reg']]
RenameRegions(rs) ==
    [i \in 1..Len(rs) |-> [code_reg |-> rs[i].code, name_reg |-> rs[i].name]]

\* departments.rename(...)[['code_reg', 'code_dep', 'name_dep']]
RenameDepartments(ds) ==
    [i \in 1..Len(ds) |-> [code_reg |-> ds[i].region_code,
                           code_dep |-> ds[i].code,
                           name_dep |-> ds[i].name]]

\* variant: how='inner', a department without a region is dropped
LeftMergeRow_inner(l, right) ==
    LET m == SelectSeq(right, LAMBDA r : r.code_reg = l.code_reg)
    IN [j \in 1..Len(m) |->
          [code_reg |-> l.code_reg, name_reg |-> m[j].name_reg,
           code_dep |-> l.code_dep, name_dep |-> l.name_dep]]

\* one left row of pd.merge(..., on='code_reg', how='left')
LeftMergeRow(l, right) ==
    LET m == SelectSeq(right, LAMBDA r : r.code_reg = l.code_reg)
    IN IF m = <<>>
       THEN <<[code_reg |-> l.code_reg, name_reg |-> NaN,
               code_dep |-> l.code_dep, name_dep |-> l.name_dep]>>
       ELSE [j \in 1..Len(m) |->
               [code_reg |-> l.code_reg, name_reg |-> m[j].name_reg,
                code_dep |-> l.code_dep, name_dep |-> l.name_dep]]

MergeRegionsAndDepartments(rs, ds) ==
    LET df_reg == RenameRegions(rs)
        df_dep == RenameDepartments(ds)
    IN Concat([i \in 1..Len(df_dep) |-> LeftMergeRow(df_dep[i], df_reg)])

(***************************************************************************)
(* merge_referendum_and_areas                                              *)
(***************************************************************************)
\* referendum['Department code'].astype(str).str.zfill(2)
NormalizeCode(raw) == ZFill(AsTypeStr(raw), 2)

\* referendum['code_dep'] = ... : the column is attached to the table given
AttachCodeDep(ref) ==
    [i \in 1..Len(ref) |->
        [Department_code |-> ref[i].Department_code,
         Registered |-> ref[i].Registered,
         Abstentions |-> ref[i].Abstentions,
         Null |-> ref[i].Null,
         Choice_A |-> ref[i].Choice_A,
         Choice_B |-> ref[i].Choice_B,
         code_dep |-> NormalizeCode(ref[i].Department_code)]]

\* variant: str.startswith('Z') instead of str.contains('Z')
KeepRow_startswith(row) == ~(Len(row.code_dep) > 0 /\ row.code_dep[1] = "Z")

\* referendum[~referendum['code_dep'].str.contains('Z')]
KeepRow(row) == ~StrContains(row.code_dep, "Z")

DropZ(ref) == SelectSeq(ref, KeepRow)

\* variant: joined on the code as read, without the padding
InnerMergeRow_unpadded(l, right) ==
    LET m == SelectSeq(right, LAMBDA r : r.code_dep = AsTypeStr(l.Department_code))
    IN [j \in 1..Len(m) |->
          [Department_code |-> l.Department_code,
           Registered |-> l.Registered,
           Abstentions |-> l.Abstentions,
           Null |-> l.Null,
           Choice_A |-> l.Choice_A,
           Choice_B |-> l.Choice_B,
           code_dep |-> l.code_dep,
           code_reg |-> m[j].code_reg,
           name_reg |-> m[j].name_reg,
           name_dep |-> m[j].name_dep]]

\* variant: how='left', a record without an area is kept with absent fields
InnerMergeRow_left(l, right) ==
    LET m == SelectSeq(right, LAMBDA r : r.code_dep = l.code_dep)
        row(cr, nr, nd) ==
          [Department_code |-> l.Department_code,
           Registered |-> l.Registered,
           Abstentions |-> l.Abstentions,
           Null |-> l.Null,
           Choice_A |-> l.Choice_A,
           Choice_B |-> l.Choice_B,
           code_dep |-> l.code_dep,
           code_reg |-> cr, name_reg |-> nr, name_dep |-> nd]
    IN IF m = <<>> THEN <<row(NaNCode, NaN, NaN)>>
       ELSE [j \in 1..Len(m) |-> row(m[j].code_reg, m[j].name_reg, m[j].name_dep)]

\* one left row of pd.merge(..., on='code_dep', how='inner')
InnerMergeRow(l, right) ==
    LET m == SelectSeq(right, LAMBDA r : r.code_dep = l.code_dep)
    IN [j \in 1..Len(m) |->
          [Department_code |-> l.Department_code,
           Registered |-> l.Registered,
           Abstentions |-> l.Abstentions,
           Null |-> l.Null,
           Choice_A |-> l.Choice_A,
           Choice_B |-> l.Choice_B,
           code_dep |-> l.code_dep,
           code_reg |-> m[j].code_reg,
           name_reg |-> m[j].name_reg,
           name_dep |-> m[j].name_dep]]

InnerMerge(left, right) ==
    Concat([i \in 1..Len(left) |-> InnerMergeRow(left[i], right)])

MergeReferendumAndAreas(ref, areas) == InnerMerge(DropZ(AttachCodeDep(ref)), areas)

(***************************************************************************)
(* compute_referendum_result_by_regions                                    *)
(***************************************************************************)
\* ordering of the group keys (groupby sorts its keys)
CharOrder == <<"0", "1", "2", "3", "4", "5", "6", "7", "8", "9",
               "A", "Z", "NaN">>
NameOrder == <<"Nord", "Sud", "NaN">>

CharRank(c) == CHOOSE i \in 1..Len(CharOrder) : CharOrder[i] = c
NameRank(n) == CHOOSE i \in 1..Len(NameOrder) : NameOrder[i] = n

RECURSIVE StrLess(_, _)
StrLess(s, t) ==
    IF t = <<>> THEN FALSE
    ELSE IF s = <<>> THEN TRUE
    ELSE IF s[1] # t[1] THEN CharRank(s[1]) < CharRank(t[1])
    ELSE StrLess(Tail(s), Tail(t))

KeyLess(a, b) ==
    \/ StrLess(a.code_reg, b.code_reg)
    \/ a.code_reg = b.code_reg /\ NameRank(a.name_reg) < NameRank(b.name_reg)

SameKey(a, b) == a.code_reg = b.code_reg /\ a.name_reg = b.name_reg

\* variant: dropna=False, absent keys form groups of their own
HasKey_keepna(row) == TRUE

\* groupby drops the rows whose key holds an absent value (dropna=True)
HasKey(row) == row.code_reg # NaNCode /\ row.name_reg # NaN

NewGroup(row) ==
    [code_reg |-> row.code_reg, name_reg |-> row.name_reg,
     Registered |-> row.Registered, Abstentions |-> row.Abstentions,
     Null |-> row.Null, Choice_A |-> row.Choice_A, Choice_B |-> row.Choice_B]

\* variant: aggregation 'last' instead of 'sum'
AddToGroup_last(g, row) ==
    [code_reg |-> g.code_reg, name_reg |-> g.name_reg,
     Registered |-> row.Registered, Abstentions |-> row.Abstentions,
     Null |-> row.Null, Choice_A |-> row.Choice_A, Choice_B |-> row.Choice_B]

AddToGroup(g, row) ==
    [code_reg |-> g.code_reg, name_reg |-> g.name_reg,
     Registered |-> g.Registered + row.Registered,
     Abstentions |-> g.Abstentions + row.Abstentions,
     Null |-> g.Null + row.Null,
     Choice_A |-> g.Choice_A + row.Choice_A,
     Choice_B |-> g.Choice_B + row.Choice_B]

\* variant: no grouping, every keyed row becomes a row of the result
Accumulate_nogroup(acc, row) ==
    IF ~HasKey(row) THEN acc
    ELSE LET before == SelectSeq(acc, LAMBDA g : KeyLess(g, row))
             after == SelectSeq(acc, LAMBDA g : ~KeyLess(g, row))
         IN before \o <<NewGroup(row)>> \o after

\* put one row into the sorted list of groups
Accumulate(acc, row) ==
    IF ~HasKey(row) THEN acc
    ELSE IF \E j \in 1..Len(acc) : SameKey(acc[j], row)
    THEN [j \in 1..Len(acc) |->
            IF SameKey(acc[j], row) THEN AddToGroup(acc[j], row) ELSE acc[j]]
    ELSE LET before == SelectSeq(acc, LAMBDA g : KeyLess(g, row))
             after == SelectSeq(acc, LAMBDA g : ~KeyLess(g, row))
         IN before \o <<NewGroup(row)>> \o after

RECURSIVE GroupBySum(_, _)
GroupBySum(rows, acc) ==
    IF rows = <<>> THEN acc
    ELSE GroupBySum(Tail(rows), Accumulate(acc, Head(rows)))

\* groupby(['code_reg','name_reg']).agg(sum).reset_index().set_index('code_reg')
ComputeReferendumResultByRegions(joined) == GroupBySum(joined, <<>>)

(***************************************************************************)
(* plot_referendum_map                                                     *)
(***************************************************************************)
NaNRatio == [num |-> 0, den |-> 0]

\* variant: a / b, Choice A against Choice B
Ratio_ab(a, b) ==
    IF b = 0 THEN NaNRatio
    ELSE LET g == Gcd(b, a)
         IN [num |-> a \div g, den |-> b \div g]

\* a / (a + b): the quotient as a fraction in lowest terms, 0/0 is NaN
Ratio(a, b) ==
    IF a + b = 0 THEN NaNRatio
    ELSE LET g == Gcd(a + b, a)
         IN [num |-> a \div g, den |-> (a + b) \div g]

\* referendum_result_by_regions['ratio'] = a / (a + b)
AttachRatio(res) ==
    [i \in 1..Len(res) |->
        [code_reg |-> res[i].code_reg, name_reg |-> res[i].name_reg,
         Registered |-> res[i].Registered, Abstentions |-> res[i].Abstentions,
         Null |-> res[i].Null, Choice_A |-> res[i].Choice_A,
         Choice_B |-> res[i].Choice_B,
         ratio |-> Ratio(res[i].Choice_A, res[i].Choice_B)]]

\* regions_geo['code'] = regions_geo['code'].astype(str)
GeoCodesAsStr(geo) == [i \in 1..Len(geo) |-> [code |-> AsTypeStr(geo[i].code)]]

\* one geometry row of regions_geo.merge(results, left_on='code', right_index=True)
GeoMergeRow(g, res) ==
    LET m == SelectSeq(res, LAMBDA r : r.code_reg = g.code)
    IN [j \in 1..Len(m) |->
          [code |-> g.code, name_reg |-> m[j].name_reg,
           Registered |-> m[j].Registered, Abstentions |-> m[j].Abstentions,
           Null |-> m[j].Null, Choice_A |-> m[j].Choice_A,
           Choice_B |-> m[j].Choice_B, ratio |-> m[j].ratio]]

GeoMerge(geo, res) == Concat([i \in 1..Len(geo) |-> GeoMergeRow(geo[i], res)])

(***************************************************************************)
(* Input universes                                                         *)
(***************************************************************************)
RegCodes == {<<"8", "4">>, <<"1", "1">>}
RegNames == {"Nord", "Sud"}
DanglingRegCode == <<"9", "9">>
DepCodes == {<<"0", "1">>, <<"1", "2">>}
DepNames == {"Ain", "Oise"}

RegionRows == [code : RegCodes, name : RegNames]
DepartmentRows ==
    [code : DepCodes, name : DepNames, region_code : RegCodes \cup {DanglingRegCode}]

Tally(r, ab, nu, a, b) ==
    [Registered |-> r, Abstentions |-> ab, Null |-> nu, Choice_A |-> a, Choice_B |-> b]
Tallies == {Tally(10, 1, 2, 3, 4), Tally(5, 4, 1, 0, 0)}

VoteRow(cell, t) ==
    [Department_code |-> cell, Registered |-> t.Registered,
     Abstentions |-> t.Abstentions, Null |-> t.Null,
     Choice_A |-> t.Choice_A, Choice_B |-> t.Choice_B]

\* department codes of the referendum file: 1, "12", "7", "2Z", "Z"
VoteCells == {IntCell(1), StrCell(<<"1", "2">>), StrCell(<<"7">>),
              StrCell(<<"2", "Z">>), StrCell(<<"Z">>)}
VoteRows == {VoteRow(c, Tally(10, 1, 2, 3, 4)) : c \in VoteCells}

AreaRows ==
    {[code_reg |-> k[1], name_reg |-> k[2], code_dep |-> d, name_dep |-> "Ain"] :
        k \in {<<<<"8", "4">>, "Nord">>, <<DanglingRegCode, NaN>>},
        d \in DepCodes \cup {<<"2", "Z">>, <<"0", "Z">>}}

NormAlphabet == {"0", "1", "5", "9", "A", "Z"}
NormCells == {IntCell(n) : n \in 0..MaxIntCode}
             \cup {StrCell(s) : s \in SeqsUpTo(NormAlphabet, MaxStrCode)}

JoinedRows ==
    {[Department_code |-> IntCell(1), code_dep |-> <<"0", "1">>, name_dep |-> "Ain",
      code_reg |-> c, name_reg |-> n,
      Registered |-> t.Registered, Abstentions |-> t.Abstentions, Null |-> t.Null,
      Choice_A |-> t.Choice_A, Choice_B |-> t.Choice_B] :
        c \in RegCodes \cup {NaNCode}, n \in RegNames \cup {NaN}, t \in Tallies}

ResultRows ==
    {[code_reg |-> c, name_reg |-> "Nord", Registered |-> a + b,
      Abstentions |-> 0, Null |-> 0, Choice_A |-> a, Choice_B |-> b] :
        c \in RegCodes, a \in 0..MaxCount, b \in 0..MaxCount}

\* contents of data/regions.geojson: codes as numbers or as strings
GeoTables == {<<>>, <<[code |-> IntCell(84)]>>,
              <<[code |-> StrCell(<<"8", "4">>)], [code |-> StrCell(<<"1", "1">>)]>>}

PipeDepartmentRows == {d \in DepartmentRows : d.name = "Ain"}
PipeVoteRows ==
    {VoteRow(c, t) : c \in {IntCell(1), StrCell(<<"1", "2">>), StrCell(<<"2", "Z">>)},
                     t \in Tallies}

(***************************************************************************)
(* The four stages as steps of the pipeline                                *)
(***************************************************************************)
merge_regions_and_departments ==
    /\ pc = "areas"
    /\ regions_and_departments' = MergeRegionsAndDepartments(regions, departments)
    /\ pc' = "join"
    /\ UNCHANGED <<regions, departments, referendum, regions_geo,
                   referendum_and_areas, referendum_results, gdf>>

merge_referendum_and_areas ==
    /\ pc = "join"
    /\ referendum' = AttachCodeDep(referendum)
    /\ referendum_and_areas' =
           MergeReferendumAndAreas(referendum, regions_and_departments)
    /\ pc' = "agg"
    /\ UNCHANGED <<regions, departments, regions_geo, regions_and_departments,
                   referendum_results, gdf>>

compute_referendum_result_by_regions ==
    /\ pc = "agg"
    /\ referendum_results' = ComputeReferendumResultByRegions(referendum_and_areas)
    /\ pc' = "plot"
    /\ UNCHANGED <<regions, departments, referendum, regions_geo,
                   regions_and_departments, referendum_and_areas, gdf>>

plot_referendum_map ==
    /\ pc = "plot"
    /\ \E geo \in GeoTables :
          /\ regions_geo' = GeoCodesAsStr(geo)
          /\ referendum_results' = AttachRatio(referendum_results)
          /\ gdf' = GeoMerge(GeoCodesAsStr(geo), AttachRatio(referendum_results))
    /\ pc' = "done"
    /\ UNCHANGED <<regions, departments, referendum,
                   regions_and_departments, referendum_and_areas>>

(***************************************************************************)
(* Specifications                                                          *)
(***************************************************************************)
\* the whole pipeline, as the __main__ block runs it
Init ==
    /\ regions \in SeqsUpTo(RegionRows, PipeRows)
    /\ departments \in SeqsUpTo(PipeDepartmentRows, PipeRows)
    /\ referendum \in SeqsUpTo(PipeVoteRows, PipeVotes)
    /\ regions_geo = <<>>
    /\ regions_and_departments = <<>>
    /\ referendum_and_areas = <<>>
    /\ referendum_results = <<>>
    /\ gdf = <<>>
    /\ pc = "areas"

Next ==
    \/ merge_regions_and_departments
    \/ merge_referendum_and_areas
    \/ compute_referendum_result_by_regions
    \/ plot_referendum_map

Spec == Init /\ [][Next]_vars

\* merge_regions_and_departments on any regions and departments
InitAreas ==
    /\ regions \in SeqsUpTo(RegionRows, MaxRegions)
    /\ departments \in SeqsUpTo(DepartmentRows, MaxDeps)
    /\ referendum = <<>>
    /\ regions_geo = <<>>
    /\ regions_and_departments = <<>>
    /\ referendum_and_areas = <<>>
    /\ referendum_results = <<>>
    /\ gdf = <<>>
    /\ pc = "areas"

NextAreas == merge_regions_and_departments

SpecAreas == InitAreas /\ [][NextAreas]_vars

\* merge_referendum_and_areas on any referendum and any area table
InitJoin ==
    /\ regions = <<>>
    /\ departments = <<>>
    /\ referendum \in SeqsUpTo(VoteRows, MaxVotes)
    /\ regions_geo = <<>>
    /\ regions_and_departments \in SeqsUpTo(AreaRows, MaxAreas)
    /\ referendum_and_areas = <<>>
    /\ referendum_results = <<>>
    /\ gdf = <<>>
    /\ pc = "join"

NextJoin == merge_referendum_and_areas

SpecJoin == InitJoin /\ [][NextJoin]_vars

\* merge_referendum_and_areas on one record with any department code
InitNorm ==
    /\ regions = <<>>
    /\ departments = <<>>
    /\ \E c \in NormCells : referendum = <<VoteRow(c, Tally(10, 1, 2, 3, 4))>>
    /\ regions_geo = <<>>
    /\ regions_and_departments =
          <<[code_reg |-> <<"8", "4">>, name_reg |-> "Nord",
             code_dep |-> <<"0", "5">>, name_dep |-> "Ain"]>>
    /\ referendum_and_areas = <<>>
    /\ referendum_results = <<>>
    /\ gdf = <<>>
    /\ pc = "join"

NextNorm == merge_referendum_and_areas

SpecNorm == InitNorm /\ [][NextNorm]_vars

\* compute_referendum_result_by_regions on any joined table
InitAgg ==
    /\ regions = <<>>
    /\ departments = <<>>
    /\ referendum = <<>>
    /\ regions_geo = <<>>
    /\ regions_and_departments = <<>>
    /\ referendum_and_areas \in SeqsUpTo(JoinedRows, MaxJoined)
    /\ referendum_results = <<>>
    /\ gdf = <<>>
    /\ pc = "agg"

NextAgg == compute_referendum_result_by_regions

SpecAgg == InitAgg /\ [][NextAgg]_vars

\* plot_referendum_map on any table of regional results
InitRatio ==
    /\ regions = <<>>
    /\ departments = <<>>
    /\ referendum = <<>>
    /\ regions_geo = <<>>
    /\ regions_and_departments = <<>>
    /\ referendum_and_areas = <<>>
    /\ referendum_results \in SeqsUpTo(ResultRows, MaxResults)
    /\ gdf = <<>>
    /\ pc = "plot"

NextRatio == plot_referendum_map

SpecRatio == InitRatio /\ [][NextRatio]_vars

(***************************************************************************)
(* Properties                                                              *)
(***************************************************************************)
NumCols == {"Registered", "Abstentions", "Null", "Choice_A", "Choice_B"}

RowsOf(df) == {df[i] : i \in 1..Len(df)}

\* sum of a column over the rows of df that satisfy P
SumWhere(df, P(_), col) == SumSeq(Column(SelectSeq(df, P), col))

\* ---- merge_regions_and_departments ----
UniqueRegionCodes ==
    \A i, j \in 1..Len(regions) : regions[i].code = regions[j].code => i = j

RegionNameOf(c) ==
    IF \E i \in 1..Len(regions) : regions[i].code = c
    THEN regions[CHOOSE i \in 1..Len(regions) : regions[i].code = c].name
    ELSE NaN

\* C5: with unique region codes, merge_regions_and_departments returns one row
\* per department, in the departments' order, holding the department's own
\* code, name and region code and the name of the region with that code, or an
\* absent name when there is no such region; no department is dropped.
C5_OneRowPerDepartment ==
    (pc = "join" /\ UniqueRegionCodes) =>
        /\ Len(regions_and_departments) = Len(departments)
        /\ \A i \in 1..Len(departments) :
              /\ regions_and_departments[i].code_dep = departments[i].code
              /\ regions_and_departments[i].name_dep = departments[i].name
              /\ regions_and_departments[i].code_reg = departments[i].region_code
              /\ regions_and_departments[i].name_reg =
                     RegionNameOf(departments[i].region_code)

C5_Witness ==
    /\ pc = "join"
    /\ UniqueRegionCodes
    /\ Len(regions) = 2
    /\ Len(regions_and_departments) = 2
    /\ regions_and_departments[1].name_reg = NaN
    /\ regions_and_departments[2].name_reg = "Sud"

\* ---- merge_referendum_and_areas ----
HasZ(code) == \E i \in 1..Len(code) : code[i] = "Z"

\* the vote records that survive the exclusion, by position in referendum
Survivors == {i \in 1..Len(referendum) : ~HasZ(referendum[i].code_dep)}

HasArea(code) ==
    \E j \in 1..Len(regions_and_departments) :
        regions_and_departments[j].code_dep = code

UniqueDepCodes ==
    \A i, j \in 1..Len(regions_and_departments) :
        regions_and_departments[i].code_dep = regions_and_departments[j].code_dep
            => i = j

\* C2: no row of the table returned by merge_referendum_and_areas comes from a
\* vote record whose normalized department code contains 'Z', whatever the
\* area table holds.
C2_NoZInJoined ==
    pc = "agg" =>
        \A i \in 1..Len(referendum_and_areas) :
            /\ ~HasZ(referendum_and_areas[i].code_dep)
            /\ ~HasZ(ZFill(AsTypeStr(referendum_and_areas[i].Department_code), 2))

C2_Witness ==
    /\ pc = "agg"
    /\ \E i \in 1..Len(referendum) :
          /\ HasZ(referendum[i].code_dep)
          /\ HasArea(referendum[i].code_dep)
    /\ Len(referendum_and_areas) > 0

JoinCardinality ==
    /\ Len(referendum_and_areas) <= Cardinality(Survivors)
    /\ (Len(referendum_and_areas) = Cardinality(Survivors))
          <=> (\A i \in Survivors : HasArea(referendum[i].code_dep))

\* C3 as stated: for every area table, the join returns at most as many rows
\* as there are surviving records, with equality iff every survivor matches.
C3_Original == pc = "agg" => JoinCardinality

\* C3 amended: the same, for area tables whose department codes are unique.
C3_JoinCardinality == (pc = "agg" /\ UniqueDepCodes) => JoinCardinality

C3_Witness ==
    /\ pc = "agg"
    /\ UniqueDepCodes
    /\ Len(regions_and_departments) = 2
    /\ Cardinality(Survivors) = 2
    /\ Len(referendum_and_areas) = 1

\* C6: a department code given as a non-negative integer or as a digit string
\* of at most 2 characters gets a code_dep of exactly 2 characters with the
\* same numeric value; a code of more than 2 characters is left unchanged.
C6_Normalization ==
    pc = "agg" =>
        \A i \in 1..Len(referendum) :
            LET raw == referendum[i].Department_code
                code == referendum[i].code_dep
            IN /\ (raw.isInt /\ raw.n < 100) =>
                      Len(code) = 2 /\ IsDigitStr(code) /\ NumVal(code) = raw.n
               /\ (raw.isInt /\ raw.n >= 100) =>
                      Len(code) > 2 /\ IsDigitStr(code) /\ NumVal(code) = raw.n
                      /\ code[1] # "0"
               /\ (~raw.isInt /\ IsDigitStr(raw.s) /\ Len(raw.s) <= 2) =>
                      Len(code) = 2 /\ IsDigitStr(code)
                      /\ NumVal(code) = NumVal(raw.s)
               /\ (~raw.isInt /\ Len(raw.s) > 2) => code = raw.s

C6_Witness ==
    /\ pc = "agg"
    /\ referendum[1].Department_code = IntCell(5)
    /\ referendum[1].code_dep = <<"0", "5">>
    /\ Len(referendum_and_areas) = 1

\* ---- the pipeline up to the joined table ----
AllPresent(row) ==
    /\ row.code_reg # NaNCode
    /\ row.name_reg # NaN
    /\ row.code_dep # NaNCode
    /\ row.name_dep # NaN

IsRegionCode(c) == \E i \in 1..Len(regions) : regions[i].code = c

\* C4 as stated: every row of the joined table has a present region code,
\* region name, department code and department name.
C4_Original ==
    pc \in {"agg", "plot", "done"} =>
        \A i \in 1..Len(referendum_and_areas) : AllPresent(referendum_and_areas[i])

\* C4 amended: every row of the joined table has a present region code,
\* department code and department name; its region name is present exactly
\* when its region code is the code of some region, and absent otherwise.
C4_AreaFieldsOfJoined ==
    pc \in {"agg", "plot", "done"} =>
        \A i \in 1..Len(referendum_and_areas) :
            LET row == referendum_and_areas[i]
            IN /\ row.code_reg # NaNCode
               /\ row.code_dep # NaNCode
               /\ row.name_dep # NaN
               /\ (row.name_reg # NaN) <=> IsRegionCode(row.code_reg)

C4_Witness ==
    /\ pc = "agg"
    /\ Len(regions) = 1
    /\ Len(referendum_and_areas) = 1
    /\ referendum_and_areas[1].name_reg = NaN
    /\ referendum_and_areas[1].code_reg = DanglingRegCode

\* C9: a stage leaves the tables it is given as they were: each step of the
\* pipeline keeps the value of every table passed to the stage it runs.
C9_StagesKeepTheirInputs ==
    [][/\ (pc = "areas" => regions' = regions /\ departments' = departments)
       /\ (pc = "join" => /\ referendum' = referendum
                          /\ regions_and_departments' = regions_and_departments)
       /\ (pc = "agg" => referendum_and_areas' = referendum_and_areas)
       /\ (pc = "plot" => referendum_results' = referendum_results)]_vars

\* ---- compute_referendum_result_by_regions ----
Keyed(row) == row.code_reg # NaNCode /\ row.name_reg # NaN

SumInRegion(df, c, col) ==
    LET P(row) == row.code_reg = c IN SumWhere(df, P, col)

SumInGroup(df, c, n, col) ==
    LET P(row) == row.code_reg = c /\ row.name_reg = n IN SumWhere(df, P, col)

SumKeyed(df, col) == SumWhere(df, Keyed, col)

SumAll(df, col) == SumSeq(Column(df, col))

\* the rows of one region code all carry the same region name
OneNamePerCode(df) ==
    \A r1, r2 \in RowsOf(df) : r1.code_reg = r2.code_reg => r1.name_reg = r2.name_reg

\* C1 as stated: each numeric column of the result row for region code R is
\* the sum of that column over every joined row whose code_reg is R.
C1_Original ==
    pc = "plot" =>
        \A i \in 1..Len(referendum_results) : \A col \in NumCols :
            referendum_results[i][col] =
                SumInRegion(referendum_and_areas,
                            referendum_results[i].code_reg, col)

\* C1 amended: each numeric column of the result row for region code R and
\* region name N is the sum of that column over the joined rows whose code_reg
\* is R and whose name_reg is N; that is the sum over all the rows of R when
\* the rows of one region code all carry the same region name.
C1_SumPerGroup ==
    pc = "plot" =>
        \A i \in 1..Len(referendum_results) : \A col \in NumCols :
            LET res == referendum_results[i]
            IN /\ res[col] = SumInGroup(referendum_and_areas,
                                        res.code_reg, res.name_reg, col)
               /\ OneNamePerCode(referendum_and_areas) =>
                      res[col] = SumInRegion(referendum_and_areas,
                                             res.code_reg, col)

C1_Witness ==
    /\ pc = "plot"
    /\ OneNamePerCode(referendum_and_areas)
    /\ Len(referendum_and_areas) = 3
    /\ Len(referendum_results) = 2
    /\ \E i \in 1..2 : referendum_results[i].Registered = 15

UniqueIndex(df) ==
    \A i, j \in 1..Len(df) : df[i].code_reg = df[j].code_reg => i = j

\* C7 as stated: no two rows of the result have the same code_reg.
C7_Original == pc = "plot" => UniqueIndex(referendum_results)

\* C7 amended: no two rows of the result have the same pair of code_reg and
\* name_reg; no two have the same code_reg when the joined rows of one region
\* code, those with a present region name, all carry the same region name.
C7_UniqueKey ==
    pc = "plot" =>
        /\ \A i, j \in 1..Len(referendum_results) :
              SameKey(referendum_results[i], referendum_results[j]) => i = j
        /\ OneNamePerCode(SelectSeq(referendum_and_areas, Keyed))
              => UniqueIndex(referendum_results)

C7_Witness ==
    /\ pc = "plot"
    /\ OneNamePerCode(SelectSeq(referendum_and_areas, Keyed))
    /\ Len(SelectSeq(referendum_and_areas, Keyed)) = 3
    /\ Len(referendum_results) = 2

\* C10: a joined row with a present region code and name is counted in exactly
\* one result row, the one of its (code_reg, name_reg) pair; a row without one
\* of them is counted in none; the total of each numeric column over the
\* result is the total over the joined rows that have both.
C10_CountedOnce ==
    pc = "plot" =>
        /\ \A r \in RowsOf(referendum_and_areas) :
              Cardinality({j \in 1..Len(referendum_results) :
                              SameKey(referendum_results[j], r)})
                  = IF Keyed(r) THEN 1 ELSE 0
        /\ \A j \in 1..Len(referendum_results) :
              \E r \in RowsOf(referendum_and_areas) : SameKey(referendum_results[j], r)
        /\ \A col \in NumCols :
              SumAll(referendum_results, col) =
                  SumKeyed(referendum_and_areas, col)

C10_Witness ==
    /\ pc = "plot"
    /\ Len(referendum_and_areas) = 3
    /\ Len(SelectSeq(referendum_and_areas, Keyed)) = 2
    /\ Len(referendum_results) = 1
    /\ referendum_results[1].Registered = 20

\* ---- plot_referendum_map ----
\* C8: a result row with Choice A + Choice B > 0 gets the ratio
\* Choice A / (Choice A + Choice B), which lies between 0 and 1; the rows of
\* the map table carry the same ratio.
C8_Ratio ==
    pc = "done" =>
        \A r \in RowsOf(referendum_results) \cup RowsOf(gdf) :
            r.Choice_A + r.Choice_B > 0 =>
                /\ r.ratio.den > 0
                /\ r.ratio.num * (r.Choice_A + r.Choice_B) = r.Choice_A * r.ratio.den
                /\ 0 <= r.ratio.num
                /\ r.ratio.num <= r.ratio.den

C8_Witness ==
    /\ pc = "done"
    /\ Len(gdf) = 1
    /\ gdf[1].Choice_A = 1
    /\ gdf[1].Choice_B = 2
    /\ gdf[1].ratio = [num |-> 1, den |-> 3]

====
